---- MODULE Spec2Model ----
(***************************************************************************)
(* Maestro-Core: the configuration store (core/config/store.rs), the       *)
(* pointer record (core/config/model.rs) and the validation of workspaces  *)
(* and of the aggregate (core/model/workspace.rs, core/model/maestro.rs).  *)
(*                                                                         *)
(* A file is a sequence of lexical tokens (strings); the file system maps  *)
(* the locations that exist to their contents.  A path is a sequence of    *)
(* components, absolute when its first component is "/".                   *)
(***************************************************************************)
EXTENDS Integers, Sequences, FiniteSets, TLC

VARIABLES
    fs,      \* the file system: [existing locations -> sequence of tokens]
    ret,     \* the last operation, its arguments and what it returned
    procs    \* the processes running save_user_config_file step by step

vars == <<fs, ret, procs>>

----------------------------------------------------------------------------
(* Bounds of the model.                                                    *)

MaxNameLen == 2          \* longest workspace name drawn for Workspace::validate
MaxWorkspaces == 3       \* longest aggregate drawn for Maestro::validate
MaxDocWorkspaces == 2    \* most workspaces in a user configuration file

----------------------------------------------------------------------------
(* Results and errors (core/model/error.rs).                               *)

Ok(v) == [ok |-> TRUE, val |-> v]
Err(kind, msg) == [ok |-> FALSE, kind |-> kind, msg |-> msg]

SerdeError(msg) == Err("SerdeError", msg)
ConfigError(msg) == Err("ConfigError", msg)
MaestroConfigValidationError(msg) == Err("MaestroConfigValidationError", msg)

----------------------------------------------------------------------------
(* Workspace::validate (core/model/workspace.rs).                          *)

\* The characters \w matches among those the model draws: letters, digits
\* and the underscore.
WordChars == {"A", "B", "W", "7", "_"}
IsWordChar(c) == c \in WordChars

\* The position after the longest run of \w characters of s starting at i.
RECURSIVE WordRunEnd(_, _)
WordRunEnd(s, i) ==
    IF i <= Len(s) /\ IsWordChar(s[i]) THEN WordRunEnd(s, i + 1) ELSE i

\* A regex that lost its anchors: \w+ matches anywhere in the name.
is_match_unanchored(s) == \E i \in 1..Len(s) : IsWordChar(s[i])

\* Regex::new(r"^\w+$").is_match(s): from the start of the text, one or
\* more \w characters, then the end of the text.
is_match(s) ==
    LET e == WordRunEnd(s, 1) IN e > 1 /\ e = Len(s) + 1

MsgSingleWord == "Name must be a single word (underscores are allowed)"
MsgNameEmpty == "Name cannot be empty"
MsgPathEmpty == "Workspace path cannot be empty"

\* The checks in another order: workspace_path first.
Workspace_validate_path_first(w) ==
    IF w.workspace_path = <<>> THEN MaestroConfigValidationError(MsgPathEmpty)
    ELSE IF w.name = <<>> THEN MaestroConfigValidationError(MsgNameEmpty)
    ELSE IF ~is_match(w.name) THEN MaestroConfigValidationError(MsgSingleWord)
    ELSE Ok(<<>>)

Workspace_validate(w) ==
    IF ~is_match(w.name) THEN MaestroConfigValidationError(MsgSingleWord)
    ELSE IF w.name = <<>> THEN MaestroConfigValidationError(MsgNameEmpty)
    ELSE IF w.workspace_path = <<>> THEN MaestroConfigValidationError(MsgPathEmpty)
    ELSE Ok(<<>>)

----------------------------------------------------------------------------
(* Maestro::validate (core/model/maestro.rs).                              *)

\* The loop of Maestro::validate from workspace i on: `?` returns the first
\* error.
RECURSIVE ValidateFrom(_, _)
ValidateFrom(ws, i) ==
    IF i > Len(ws) THEN Ok(<<>>)
    ELSE LET r == Workspace_validate(ws[i])
         IN IF r.ok THEN ValidateFrom(ws, i + 1) ELSE r

\* A loop that keeps the last error instead of returning the first.
RECURSIVE ValidateLastFrom(_, _, _)
ValidateLastFrom(ws, i, acc) ==
    IF i > Len(ws) THEN acc
    ELSE LET r == Workspace_validate(ws[i])
         IN ValidateLastFrom(ws, i + 1, IF r.ok THEN acc ELSE r)

Maestro_validate_last(m) == ValidateLastFrom(m.workspaces, 1, Ok(<<>>))

\* A loop that looks at the first workspace only.
Maestro_validate_first_only(m) ==
    IF m.workspaces = <<>> THEN Ok(<<>>) ELSE Workspace_validate(m.workspaces[1])

Maestro_validate(m) == ValidateFrom(m.workspaces, 1)

----------------------------------------------------------------------------
(* Paths and the file system.                                              *)

Cwd == <<"/", "cwd">>
MAESTRO_CONFIG_FILE == <<"maestro.json">>

\* A path made absolute against the working directory, "." components
\* dropped.
Resolve(p) ==
    LET abs == IF p # <<>> /\ p[1] = "/" THEN p ELSE Cwd \o p
    IN SelectSeq(abs, LAMBDA c : c # ".")

PointerLoc == Resolve(MAESTRO_CONFIG_FILE)
LocA == <<"/", "cwd", "user_config.json">>
LocB == <<"/", "cwd", "sub", "invalid_user_config.json">>
UserLocs == {LocA, LocB}

Exists(f, p) == Resolve(p) \in DOMAIN f

\* File::create: the file exists afterwards and is empty; every other file
\* is as it was.
FileCreate(f, p) ==
    [l \in DOMAIN f \cup {Resolve(p)} |-> IF l = Resolve(p) THEN <<>> ELSE f[l]]

NUL == "\\0"

\* write(2) of `toks` at offset `off` of a file whose content is `old`: the
\* tokens replace what was there, a gap past the end reads as NUL, and what
\* lies beyond the written range stays.
WriteAt(old, off, toks) ==
    LET n == IF off + Len(toks) > Len(old) THEN off + Len(toks) ELSE Len(old)
    IN [i \in 1..n |->
          IF i > off /\ i <= off + Len(toks) THEN toks[i - off]
          ELSE IF i <= Len(old) THEN old[i]
          ELSE NUL]

\* fs::canonicalize that returns the path as given.
canonicalize_as_given(f, p) ==
    IF Exists(f, p) THEN Ok(p) ELSE Err("io", "No such file or directory")

\* fs::canonicalize: the absolute form of a path that exists.
canonicalize(f, p) ==
    IF Exists(f, p) THEN Ok(Resolve(p)) ELSE Err("io", "No such file or directory")

----------------------------------------------------------------------------
(* The pointer record (core/config/model.rs) and its JSON text.            *)

Config_new(config_file_path) == [config_file_path |-> config_file_path]

KeyConfigFilePath == "config_file_path"
KeyWorkspaces == "workspaces"
Structural == {"{", "}", "[", "]", KeyConfigFilePath, KeyWorkspaces, NUL}

\* serde_json::to_writer_pretty(&file, &config): the writes it issues, in
\* order; the string is written by one call.
ConfigChunks(config) ==
    << <<"{">>, <<KeyConfigFilePath>>, config.config_file_path, <<"}">> >>

RECURSIVE Flatten(_)
Flatten(chunks) ==
    IF chunks = <<>> THEN <<>> ELSE Head(chunks) \o Flatten(Tail(chunks))

\* The position after the longest run of string content starting at i.
RECURSIVE StringEnd(_, _)
StringEnd(toks, i) ==
    IF i <= Len(toks) /\ toks[i] \notin Structural THEN StringEnd(toks, i + 1) ELSE i

\* serde_json::from_reader::<Config>: an object with the field
\* config_file_path holding a string, and nothing after it.
ParseConfig(toks) ==
    IF Len(toks) >= 3 /\ toks[1] = "{" /\ toks[2] = KeyConfigFilePath
    THEN LET e == StringEnd(toks, 3)
         IN IF e = Len(toks) /\ toks[e] = "}"
            THEN Ok(Config_new(SubSeq(toks, 3, e - 1)))
            ELSE Err("serde", "syntax")
    ELSE Err("serde", "syntax")

----------------------------------------------------------------------------
(* The user configuration file.                                            *)

Workspace(name, description, workspace_path, last_updated) ==
    [name |-> name, description |-> description,
     workspace_path |-> workspace_path, last_updated |-> last_updated]

\* The workspace objects a user configuration file is written with, each one
\* token of the file's text.
WorkspaceOf ==
    [t \in {"wsA", "wsB", "wsWB", "wsNoPath"} |->
        CASE t = "wsA" -> Workspace(<<"W", "A">>, "Description for workspaceA", <<"/", "a">>, "None")
          [] t = "wsB" -> Workspace(<<"W", "B">>, "Description for workspaceB", <<"/", "b">>, "None")
          [] t = "wsWB" -> Workspace(<<"W", " ", "B">>, "Description for workspaceB", <<"/", "b">>, "None")
          [] t = "wsNoPath" -> Workspace(<<"W", "A">>, "", <<>>, "None")]

WsTokens == DOMAIN WorkspaceOf

SeqsUpTo(S, n) == UNION {[1..k -> S] : k \in 0..n}

MaestroText(wsToks) == <<"{", KeyWorkspaces, "[">> \o wsToks \o <<"]", "}">>
InvalidJsonText == <<"{", "invalid", "json", "}">>

UserDocs ==
    {MaestroText(s) : s \in SeqsUpTo(WsTokens, MaxDocWorkspaces)} \cup {InvalidJsonText}

\* The two files the tests write as invalid_user_config.json.
InvalidUserDocs == {InvalidJsonText, MaestroText(<<"wsA", "wsWB">>)}

\* serde_json::from_reader::<Maestro>: an object with the field workspaces
\* holding an array of workspace objects, kept in the order of the text.
ParseMaestro(toks) ==
    LET n == Len(toks)
    IN IF /\ n >= 5
          /\ SubSeq(toks, 1, 3) = <<"{", KeyWorkspaces, "[">>
          /\ SubSeq(toks, n - 1, n) = <<"]", "}">>
          /\ \A i \in 4..(n - 2) : toks[i] \in WsTokens
       THEN Ok([workspaces |-> [i \in 1..(n - 5) |-> WorkspaceOf[toks[i + 3]]]])
       ELSE Err("serde", "syntax")

----------------------------------------------------------------------------
(* load_config (core/config/store.rs).                                     *)

MsgLoadMaestro == "Failed to load Maestro configuration"
MsgParseMaestro == "Failed to parse Maestro configuration"
MsgLoadUser == "Failed to load user configuration"
MsgParseUser == "Failed to parse user configuration"

Returned(res, trace) == [res |-> res, trace |-> trace]

\* A load that hands the parsed aggregate back whatever validation said.
load_config_unvalidated(f) ==
    IF ~Exists(f, MAESTRO_CONFIG_FILE)
    THEN Returned(ConfigError(MsgLoadMaestro), <<"open_pointer">>)
    ELSE LET config == ParseConfig(f[PointerLoc])
         IN IF ~config.ok
            THEN Returned(SerdeError(MsgParseMaestro), <<"open_pointer", "parse_pointer">>)
            ELSE IF ~Exists(f, config.val.config_file_path)
            THEN Returned(ConfigError(MsgLoadUser),
                          <<"open_pointer", "parse_pointer", "open_user">>)
            ELSE LET maestro == ParseMaestro(f[Resolve(config.val.config_file_path)])
                 IN IF ~maestro.ok
                    THEN Returned(SerdeError(MsgParseUser),
                                  <<"open_pointer", "parse_pointer", "open_user", "parse_user">>)
                    ELSE Returned(Ok(maestro.val),
                                  <<"open_pointer", "parse_pointer", "open_user",
                                    "parse_user", "validate">>)

load_config(f) ==
    IF ~Exists(f, MAESTRO_CONFIG_FILE)
    THEN Returned(ConfigError(MsgLoadMaestro), <<"open_pointer">>)
    ELSE LET config == ParseConfig(f[PointerLoc])
         IN IF ~config.ok
            THEN Returned(SerdeError(MsgParseMaestro), <<"open_pointer", "parse_pointer">>)
            ELSE IF ~Exists(f, config.val.config_file_path)
            THEN Returned(ConfigError(MsgLoadUser),
                          <<"open_pointer", "parse_pointer", "open_user">>)
            ELSE LET maestro == ParseMaestro(f[Resolve(config.val.config_file_path)])
                 IN IF ~maestro.ok
                    THEN Returned(SerdeError(MsgParseUser),
                                  <<"open_pointer", "parse_pointer", "open_user", "parse_user">>)
                    ELSE LET v == Maestro_validate(maestro.val)
                         IN Returned(IF v.ok THEN Ok(maestro.val) ELSE v,
                                     <<"open_pointer", "parse_pointer", "open_user",
                                       "parse_user", "validate">>)

----------------------------------------------------------------------------
(* save_user_config_file (core/config/store.rs).                           *)

MsgConfigure == "Failed to configure Maestro"
MsgCanonicalize == "Failed to canonicalize path"

\* What the environment does to a save: nothing, refuse to create the
\* pointer file, or fail the write of the record.
Faults == {"none", "create", "write"}

\* The writes of a serialization, one after the other from offset `off`.
RECURSIVE WriteChunks(_, _, _)
WriteChunks(old, off, chunks) ==
    IF chunks = <<>> THEN old
    ELSE WriteChunks(WriteAt(old, off, Head(chunks)), off + Len(Head(chunks)), Tail(chunks))

Saved(f, res) == [fs |-> f, res |-> res]

save_user_config_file(f, user_config_path, fault) ==
    IF fault = "create" THEN Saved(f, ConfigError(MsgConfigure))
    ELSE LET f1 == FileCreate(f, MAESTRO_CONFIG_FILE)
             absolute_path == canonicalize(f1, user_config_path)
         IN IF ~absolute_path.ok THEN Saved(f1, ConfigError(MsgCanonicalize))
            ELSE IF fault = "write" THEN Saved(f1, SerdeError(MsgConfigure))
            ELSE LET config == Config_new(absolute_path.val)
                     text == WriteChunks(f1[PointerLoc], 0, ConfigChunks(config))
                 IN Saved([f1 EXCEPT ![PointerLoc] = text], Ok(absolute_path.val))

----------------------------------------------------------------------------
(* The store used by one process: whole operations, and the files the user *)
(* writes and removes between them (the tests of store.rs).                *)

ProcIds == {1, 2}
Idle == [pc |-> "idle"]

SavePaths ==
    { <<"user_config.json">>, <<".", "user_config.json">>, LocA,
      <<"sub", "invalid_user_config.json">>, MAESTRO_CONFIG_FILE,
      <<"no_such_file.json">> }

Init ==
    /\ fs = <<>>
    /\ ret = [op |-> "none"]
    /\ procs = [i \in ProcIds |-> Idle]

WriteUserFile(l, text) ==
    /\ fs' = [x \in DOMAIN fs \cup {l} |-> IF x = l THEN text ELSE fs[x]]
    /\ ret' = [op |-> "write_file"]
    /\ UNCHANGED procs

RemoveFile(l) ==
    /\ l \in DOMAIN fs
    /\ fs' = [x \in DOMAIN fs \ {l} |-> fs[x]]
    /\ ret' = [op |-> "remove_file"]
    /\ UNCHANGED procs

Save(p, fault) ==
    LET s == save_user_config_file(fs, p, fault)
    IN /\ fs' = s.fs
       /\ ret' = [op |-> "save", arg |-> p, fault |-> fault, res |-> s.res]
       /\ UNCHANGED procs

Load ==
    LET r == load_config(fs)
    IN /\ ret' = [op |-> "load", res |-> r.res, trace |-> r.trace]
       /\ UNCHANGED <<fs, procs>>

Next ==
    \/ \E text \in UserDocs : WriteUserFile(LocA, text)
    \/ \E text \in InvalidUserDocs : WriteUserFile(LocB, text)
    \/ \E l \in UserLocs \cup {PointerLoc} : RemoveFile(l)
    \/ \E p \in SavePaths, fault \in Faults : Save(p, fault)
    \/ Load

Spec == Init /\ [][Next]_vars

----------------------------------------------------------------------------
(* The validation functions on their own: an input is drawn, then the      *)
(* function is applied to it.                                              *)

NameAlphabet == {"A", "7", "_", " ", "-"}
Names == SeqsUpTo(NameAlphabet, MaxNameLen)

Workspaces ==
    {Workspace(n, d, p, l) :
        n \in Names, d \in {"", "d"}, p \in {<<>>, <<"/", "a">>}, l \in {"None", "Some"}}

Aggregates ==
    {[workspaces |-> s] :
        s \in SeqsUpTo({WorkspaceOf[t] : t \in WsTokens}, MaxWorkspaces)}

InitValidate ==
    /\ fs = <<>>
    /\ procs = [i \in ProcIds |-> Idle]
    /\ \/ \E w \in Workspaces : ret = [op |-> "Workspace_validate", arg |-> w, done |-> FALSE]
       \/ \E m \in Aggregates : ret = [op |-> "Maestro_validate", arg |-> m, done |-> FALSE]

CallWorkspaceValidate ==
    /\ ret.op = "Workspace_validate" /\ ~ret.done
    /\ ret' = [ret EXCEPT !.done = TRUE] @@ [res |-> Workspace_validate(ret.arg)]
    /\ UNCHANGED <<fs, procs>>

CallMaestroValidate ==
    /\ ret.op = "Maestro_validate" /\ ~ret.done
    /\ ret' = [ret EXCEPT !.done = TRUE] @@ [res |-> Maestro_validate(ret.arg)]
    /\ UNCHANGED <<fs, procs>>

NextValidate ==
    \/ CallWorkspaceValidate
    \/ CallMaestroValidate

SpecValidate == InitValidate /\ [][NextValidate]_vars

----------------------------------------------------------------------------
(* Two processes in save_user_config_file at once, each at its own step,   *)
(* each with its own file offset; load_config runs in between.             *)

ConcPaths == { <<"user_config.json">>, <<"sub", "invalid_user_config.json">> }

Started(p) == [pc |-> "create", arg |-> p, off |-> 0, chunks |-> <<>>, res |-> [ok |-> FALSE, kind |-> "pending", msg |-> ""]]

InitConc ==
    /\ fs = (LocA :> MaestroText(<<"wsA", "wsB">>)) @@ (LocB :> MaestroText(<<"wsA">>))
    /\ ret = [op |-> "none"]
    /\ \E pa \in ConcPaths, pb \in ConcPaths :
          /\ pa # pb
          /\ procs = (1 :> Started(pa)) @@ (2 :> Started(pb))

\* File::create(&path_buf)
ProcCreate(i) ==
    /\ procs[i].pc = "create"
    /\ fs' = FileCreate(fs, MAESTRO_CONFIG_FILE)
    /\ procs' = [procs EXCEPT ![i].pc = "canonicalize", ![i].off = 0]
    /\ UNCHANGED ret

\* fs::canonicalize(..)? and Config::new
ProcCanonicalize(i) ==
    /\ procs[i].pc = "canonicalize"
    /\ LET absolute_path == canonicalize(fs, procs[i].arg)
       IN procs' = IF absolute_path.ok
                   THEN [procs EXCEPT ![i].pc = "write",
                                      ![i].chunks = ConfigChunks(Config_new(absolute_path.val))]
                   ELSE [procs EXCEPT ![i].pc = "done",
                                      ![i].res = ConfigError(MsgCanonicalize)]
    /\ UNCHANGED <<fs, ret>>

\* one write of serde_json::to_writer_pretty(&file, &config)
ProcWrite(i) ==
    /\ procs[i].pc = "write"
    /\ PointerLoc \in DOMAIN fs
    /\ LET chunk == Head(procs[i].chunks)
           rest == Tail(procs[i].chunks)
       IN /\ fs' = [fs EXCEPT ![PointerLoc] = WriteAt(@, procs[i].off, chunk)]
          /\ procs' = IF rest # <<>>
                      THEN [procs EXCEPT ![i].off = @ + Len(chunk), ![i].chunks = rest]
                      ELSE [procs EXCEPT ![i].off = @ + Len(chunk), ![i].chunks = rest,
                                         ![i].pc = "done",
                                         ![i].res = Ok(Resolve(procs[i].arg))]
    /\ UNCHANGED ret

NextConc ==
    \/ \E i \in ProcIds : ProcCreate(i)
    \/ \E i \in ProcIds : ProcCanonicalize(i)
    \/ \E i \in ProcIds : ProcWrite(i)
    \/ Load

SpecConc == InitConc /\ [][NextConc]_vars

----------------------------------------------------------------------------
(* What the claims are stated with.                                        *)

\* A name of one or more word characters and nothing else.
WordName(s) == Len(s) > 0 /\ \A i \in 1..Len(s) : s[i] \in WordChars

ValidWorkspace(w) == WordName(w.name) /\ Len(w.workspace_path) > 0

\* The stages of a load, each read off the file system.
PointerExists == PointerLoc \in DOMAIN fs
PointerParsed == ParseConfig(fs[PointerLoc])
UserLoc == Resolve(PointerParsed.val.config_file_path)
UserExists == UserLoc \in DOMAIN fs
UserParsed == ParseMaestro(fs[UserLoc])
InvalidIndexes ==
    {i \in 1..Len(UserParsed.val.workspaces) : ~ValidWorkspace(UserParsed.val.workspaces[i])}
FirstInvalid == CHOOSE i \in InvalidIndexes : \A j \in InvalidIndexes : i <= j

LoadStages == <<"open_pointer", "parse_pointer", "open_user", "parse_user", "validate">>

\* The errors load_config returns, by failure mode.
LoadFailureOf ==
    [mode \in {"pointer_not_found", "pointer_malformed", "user_not_found",
               "user_malformed", "validation"} |->
        CASE mode = "pointer_not_found" -> ConfigError(MsgLoadMaestro)
          [] mode = "pointer_malformed" -> SerdeError(MsgParseMaestro)
          [] mode = "user_not_found" -> ConfigError(MsgLoadUser)
          [] mode = "user_malformed" -> SerdeError(MsgParseUser)
          [] mode = "validation" -> MaestroConfigValidationError(MsgSingleWord)]

FailureMode(e) ==
    IF e.kind = "MaestroConfigValidationError" THEN "validation"
    ELSE CHOOSE mode \in DOMAIN LoadFailureOf : LoadFailureOf[mode].msg = e.msg

----------------------------------------------------------------------------
(* C1: a save whose path cannot be canonicalized returns an error and      *)
(* leaves the pointer file as it was, absent or with its earlier content,  *)
(* so that load_config behaves as before the save.                         *)
C1_FailedSaveLeavesPointer ==
    [][ (ret'.op = "save" /\ ~ret'.res.ok /\ ret'.res.msg = MsgCanonicalize)
          => (fs' = fs /\ load_config(fs').res = load_config(fs).res) ]_vars

(* C2: the failure modes of load_config have pairwise different error      *)
(* kinds: the kind of a returned error belongs to one failure mode only.   *)
C2_KindTellsFailureMode ==
    (ret.op = "load" /\ ~ret.res.ok) =>
        \A mode \in DOMAIN LoadFailureOf :
            LoadFailureOf[mode].kind = ret.res.kind => mode = FailureMode(ret.res)

(* C3: Workspace::validate succeeds exactly when the name is a non-empty   *)
(* run of word characters and workspace_path is non-empty, whatever the    *)
(* description and last_updated are.                                       *)
C3_WorkspaceValidateIff ==
    (ret.op = "Workspace_validate" /\ ret.done) =>
        /\ ret.res.ok <=> (WordName(ret.arg.name) /\ Len(ret.arg.workspace_path) > 0)
        /\ \A w \in Workspaces :
              (w.name = ret.arg.name /\ w.workspace_path = ret.arg.workspace_path)
                  => Workspace_validate(w) = ret.res

C3_Witness ==
    /\ ret.op = "Workspace_validate" /\ ret.done
    /\ ret.res.ok
    /\ Len(ret.arg.name) = MaxNameLen
    /\ ret.arg.description # "" /\ ret.arg.last_updated = "Some"

(* C4: Maestro::validate succeeds exactly when every workspace of the      *)
(* aggregate is valid; an empty aggregate and one with duplicate names     *)
(* pass.                                                                   *)
C4_MaestroValidateIff ==
    (ret.op = "Maestro_validate" /\ ret.done) =>
        /\ ret.res.ok <=>
              \A i \in 1..Len(ret.arg.workspaces) : Workspace_validate(ret.arg.workspaces[i]).ok
        /\ ret.arg.workspaces = <<>> => ret.res.ok

C4_Witness ==
    /\ ret.op = "Maestro_validate" /\ ret.done
    /\ ret.res.ok
    /\ Len(ret.arg.workspaces) >= 2
    /\ ret.arg.workspaces[1].name = ret.arg.workspaces[2].name

(* C5: load_config returns an aggregate only when every stage succeeded;   *)
(* otherwise it returns the error of the earliest failing stage, runs no   *)
(* later stage and returns no aggregate; with no pointer file it fails     *)
(* with the not-found error.                                               *)
C5_LoadAllOrNothing ==
    ret.op = "load" =>
        /\ ~PointerExists =>
              ret.res = ConfigError(MsgLoadMaestro) /\ ret.trace = SubSeq(LoadStages, 1, 1)
        /\ (PointerExists /\ ~PointerParsed.ok) =>
              ret.res = SerdeError(MsgParseMaestro) /\ ret.trace = SubSeq(LoadStages, 1, 2)
        /\ (PointerExists /\ PointerParsed.ok /\ ~UserExists) =>
              ret.res = ConfigError(MsgLoadUser) /\ ret.trace = SubSeq(LoadStages, 1, 3)
        /\ (PointerExists /\ PointerParsed.ok /\ UserExists /\ ~UserParsed.ok) =>
              ret.res = SerdeError(MsgParseUser) /\ ret.trace = SubSeq(LoadStages, 1, 4)
        /\ (PointerExists /\ PointerParsed.ok /\ UserExists /\ UserParsed.ok) =>
              /\ ret.trace = LoadStages
              /\ InvalidIndexes # {} =>
                    ~ret.res.ok /\ ret.res.kind = "MaestroConfigValidationError"
              /\ InvalidIndexes = {} => ret.res = Ok(UserParsed.val)

C5_Witness ==
    /\ ret.op = "load"
    /\ ret.res = SerdeError(MsgParseUser)
    /\ fs[UserLoc] = InvalidJsonText

(* C6: after a successful save(p) the pointer file holds the canonical     *)
(* absolute form of p, which save returned and which canonicalizes to      *)
(* itself; load_config then reads the file at that path and returns its    *)
(* workspaces in the order of the text; saving the returned path again     *)
(* changes nothing.  This holds whatever the pointer held before.          *)
C6_SaveLoadRoundTrip ==
    (ret.op = "save" /\ ret.res.ok) =>
        /\ ret.res.val[1] = "/"
        /\ \A i \in 1..Len(ret.res.val) : ret.res.val[i] # "."
        /\ Resolve(ret.arg) = ret.res.val
        /\ canonicalize(fs, ret.res.val) = Ok(ret.res.val)
        /\ PointerExists
        /\ PointerParsed = Ok(Config_new(ret.res.val))
        /\ fs[PointerLoc] = Flatten(ConfigChunks(Config_new(ret.res.val)))
        /\ UserLoc = ret.res.val
        /\ \A s \in SeqsUpTo(WsTokens, MaxDocWorkspaces) :
              (fs[ret.res.val] = MaestroText(s)
                 /\ \A i \in 1..Len(s) : ValidWorkspace(WorkspaceOf[s[i]]))
                 => load_config(fs).res = Ok([workspaces |-> [i \in 1..Len(s) |-> WorkspaceOf[s[i]]]])
        /\ save_user_config_file(fs, ret.res.val, "none") = Saved(fs, Ok(ret.res.val))

C6_Witness ==
    /\ ret.op = "save" /\ ret.res.ok
    /\ ret.arg = <<".", "user_config.json">>
    /\ load_config(fs).res.ok
    /\ load_config(fs).res.val.workspaces = <<WorkspaceOf["wsA"], WorkspaceOf["wsB"]>>

(* C7: save canonicalizes before it opens the pointer file, so a save with *)
(* an unresolvable path fails with the path-resolution error even when the *)
(* pointer file cannot be created, and that error's kind differs from the  *)
(* kind of the failure to create the pointer file.                         *)
C7_CanonicalizeBeforeCreate ==
    (ret.op = "save" /\ ~ret.res.ok) =>
        /\ (ret.fault = "create" /\ ~Exists(fs, ret.arg)) => ret.res.msg = MsgCanonicalize
        /\ ret.res.msg = MsgCanonicalize =>
              ret.res.kind # save_user_config_file(fs, ret.arg, "create").res.kind

(* C8: when load_config reaches validation and a workspace is invalid, it  *)
(* returns exactly the error Workspace::validate gives for the first       *)
(* invalid workspace, whatever follows it; for the name "W B" that is the  *)
(* message "Name must be a single word ...".                               *)
C8_FirstInvalidWins ==
    (ret.op = "load" /\ PointerExists /\ PointerParsed.ok /\ UserExists /\ UserParsed.ok
       /\ InvalidIndexes # {}) =>
        LET w == UserParsed.val.workspaces[FirstInvalid]
        IN /\ ret.res = Workspace_validate(w)
           /\ ret.res = Maestro_validate(UserParsed.val)
           /\ ~WordName(w.name) => ret.res.msg = MsgSingleWord

C8_Witness ==
    /\ ret.op = "load" /\ PointerExists /\ PointerParsed.ok /\ UserExists /\ UserParsed.ok
    /\ fs[UserLoc] = MaestroText(<<"wsWB", "wsNoPath">>)
    /\ ret.res = MaestroConfigValidationError(MsgSingleWord)

(* C9: Workspace::validate checks the name pattern, then the empty name,   *)
(* then the empty workspace_path, and returns the message of the first     *)
(* check that fails: a bad name wins over an empty path, an empty name     *)
(* gets the pattern's message, and "Name cannot be empty" is never         *)
(* returned.                                                               *)
C9_CheckOrder ==
    (ret.op = "Workspace_validate" /\ ret.done) =>
        /\ ~WordName(ret.arg.name) => ret.res = MaestroConfigValidationError(MsgSingleWord)
        /\ (WordName(ret.arg.name) /\ ret.arg.workspace_path = <<>>)
              => ret.res = MaestroConfigValidationError(MsgPathEmpty)
        /\ ~ret.res.ok => ret.res.msg # MsgNameEmpty

C9_Witness ==
    /\ ret.op = "Workspace_validate" /\ ret.done
    /\ ret.arg.name = <<>> /\ ret.arg.workspace_path = <<>>
    /\ ret.res = MaestroConfigValidationError(MsgSingleWord)

(* C10: once both concurrent saves have finished, the pointer file holds a *)
(* well-formed pointer record whose path is the canonical path of one of   *)
(* the two saves, and load_config dereferences that path.                  *)
C10_LastWriterWins ==
    (\A i \in ProcIds : procs[i].pc = "done") =>
        /\ PointerExists
        /\ PointerParsed.ok
        /\ \E i \in ProcIds : PointerParsed.val.config_file_path = Resolve(procs[i].arg)

====
